---- MODULE Spec2Model ----
(***************************************************************************)
(* Model of lib/reporter.js and lib/util.js: active-user reports over      *)
(* per-day bitsets kept in a key-value store.                              *)
(*                                                                         *)
(* Strings that the code builds with join('-') and takes apart with        *)
(* split('-') are modelled by their sequence of '-'-separated fields.      *)
(* A moment date is modelled by its UTC day number (days since 1970-01-01);*)
(* the time of day never reaches a key, format('YYYY-MM-DD') drops it.     *)
(* A BigInt produced by readBigInt64BE is modelled by its 64-bit two's     *)
(* complement pattern, most significant bit first.                         *)
(***************************************************************************)
EXTENDS Integers, Sequences, FiniteSets, TLC

VARIABLES
  store,      \* the key-value store: present keys -> byte buffer
  action,     \* the action argument of the call (<<>> when omitted)
  dateArg,    \* the day the caller asked about
  op,         \* which public operation is running ("none" before the call)
  type,       \* getUsers' granularity 'D' | 'W' | 'M'
  date,       \* the (mutable) moment object the call works on
  keys,       \* the key sequence of the call
  pending,    \* store requests issued and not yet answered, oldest first
  results,    \* async.map's results array of activeUsers
  mapDone,    \* async.map has already invoked its final callback
  usersList,  \* getUsers' usersList object
  dateParts,  \* getUsers' dateParts variable, shared by the per-key tasks
  promise,    \* the promise returned by getUsers: state and rejection reason
  failures,   \* the store's failed requests: their number, the first error
  overtakes,  \* how often the store has answered out of order so far
  cb          \* invocations of the caller's callback, in order

vars == <<store, action, dateArg, op, type, date, keys, pending, results,
          mapDone, usersList, dateParts, promise, failures, overtakes, cb>>

-----------------------------------------------------------------------------
(* Bounds                                                                  *)

FirstDay == 19700           \* 2023-12-09, first day of the key-derivation range
NumDays == 100              \* ... through 2024-03-17 (year end, leap February)
BaseDay == 19779            \* 2024-02-26, first day holding a stored bitset
MaxBytes == 1               \* longest stored bitset in the concurrent model
WideBytes == 8              \* longest stored bitset in the counting model
MaxOvertakes == 3           \* out-of-order answers of the store during one call
MaxFailures == 2            \* store requests that may fail during one call

WordBytes == 8               \* util.to64Bits pads to 8 bytes

-----------------------------------------------------------------------------
(* Calendar (moment)                                                       *)

Digit == <<"0", "1", "2", "3", "4", "5", "6", "7", "8", "9">>

Pad2(n) == Digit[(n \div 10) + 1] \o Digit[(n % 10) + 1]

Pad4(n) == Pad2(n \div 100) \o Pad2(n % 100)

IsLeap(y) == (y % 4 = 0 /\ y % 100 # 0) \/ y % 400 = 0

DaysIn(y, m) ==
  IF m = 2 THEN (IF IsLeap(y) THEN 29 ELSE 28)
  ELSE IF m \in {4, 6, 9, 11} THEN 30 ELSE 31

\* year, month, day of a UTC day number
Civil(n) ==
  LET z == n + 719468
      era == z \div 146097
      doe == z - era * 146097
      yoe == (doe - doe \div 1460 + doe \div 36524 - doe \div 146096) \div 365
      doy == doe - (365 * yoe + yoe \div 4 - yoe \div 100)
      mp == (5 * doy + 2) \div 153
      d == doy - (153 * mp + 2) \div 5 + 1
      m == IF mp < 10 THEN mp + 3 ELSE mp - 9
      y == yoe + era * 400 + (IF m <= 2 THEN 1 ELSE 0)
  IN [y |-> y, m |-> m, d |-> d]

\* UTC day number of year, month, day
DayNumber(y, m, d) ==
  LET yy == IF m <= 2 THEN y - 1 ELSE y
      era == yy \div 400
      yoe == yy - era * 400
      mp == IF m > 2 THEN m - 3 ELSE m + 9
      doy == (153 * mp + 2) \div 5 + d - 1
      doe == yoe * 365 + yoe \div 4 - yoe \div 100 + doy
  IN era * 146097 + doe - 719468

\* date.format('YYYY-MM-DD'), as its three '-'-separated fields
Format(n) == LET c == Civil(n) IN <<Pad4(c.y), Pad2(c.m), Pad2(c.d)>>

\* date.daysInMonth()
DaysInMonth(n) == LET c == Civil(n) IN DaysIn(c.y, c.m)

\* date.startOf(unit): mutates the date, here the new day number
StartOf(unit, n) ==
  IF unit = "week" THEN n - ((n + 4) % 7)      \* 1970-01-01 is a Thursday
  ELSE n - (Civil(n).d - 1)

\* date.add('days', k): mutates the date, here the new day number
AddDays(n, k) == n + k

\* moment(`${a}-${b}-${c}`).format('YYYY-MM-DD')
ParseFormat(parts) ==
  LET ys == {y \in 1970..2099 : Pad4(y) = parts[1]}
      ms == {m \in 1..12 : Pad2(m) = parts[2]}
      ds == {d \in 1..31 : Pad2(d) = parts[3]}
  IN IF ys = {} \/ ms = {} \/ ds = {} THEN <<"Invalid date">>
     ELSE LET y == CHOOSE y \in ys : TRUE
              m == CHOOSE m \in ms : TRUE
              d == CHOOSE d \in ds : TRUE
          IN IF d > DaysIn(y, m) THEN <<"Invalid date">>
             ELSE Format(DayNumber(y, m, d))

-----------------------------------------------------------------------------
(* Key Deriver (lib/util.js)                                               *)

Actions == {<<"my", "action">>}

keyFor(act, n) ==
  LET a == IF act = <<>> THEN <<"active">> ELSE act   \* action || 'active'
  IN a \o Format(n)

\* timesDays without startOf: add accumulates on the one date object
RECURSIVE timesDaysNoStartOf(_, _, _)
timesDaysNoStartOf(unit, days, count) ==
  IF Len(days) > count THEN days
  ELSE timesDaysNoStartOf(unit,
         Append(days, AddDays(days[Len(days)], Len(days) - 1)), count)

\* the values of the one date object during _.times(count, ...): days[1]
\* before the loop, days[n + 2] after iteration n has applied startOf and
\* add('days', n) to it
RECURSIVE timesDays(_, _, _)
timesDays(unit, days, count) ==
  IF Len(days) > count THEN days
  ELSE timesDays(unit,
         Append(days, AddDays(StartOf(unit, days[Len(days)]), Len(days) - 1)),
         count)

\* _.times(count, ...): the key of the day of each iteration, and the date
\* object as the loop leaves it
timesKeys(unit, d, act, count) ==
  LET days == timesDays(unit, <<d>>, count)
  IN [date |-> days[count + 1],
      keys |-> [n \in 1..count |-> keyFor(act, days[n + 1])]]

monthKeys(d, act) == timesKeys("month", d, act, DaysInMonth(d))

weekKeys(d, act) == timesKeys("week", d, act, 7)

-----------------------------------------------------------------------------
(* The store (external): per-day bitsets written by SETBIT key userId 1    *)

Max(S) == CHOOSE x \in S : \A y \in S : y <= x

\* the byte string holding exactly the bits of S, bit 0 the most
\* significant bit of the first byte
BufferOf(S) ==
  [b \in 1..((Max(S) \div 8) + 1) |->
     LET Bit(j) == IF (8 * (b - 1) + j) \in S THEN 2 ^ (7 - j) ELSE 0
     IN Bit(0) + Bit(1) + Bit(2) + Bit(3) + Bit(4) + Bit(5) + Bit(6) + Bit(7)]

StoredDays == {BaseDay, BaseDay + 1}

\* the day the reports are asked about
CallDays == {BaseDay + 1}

\* the stores that hold, under the keys of act, for each of StoredDays one of
\* the sets of active user ids (no key for the empty set)
Stores(act, idSets) ==
  { [k \in {keyFor(act, d) : d \in {e \in StoredDays : f[e] # {}}} |->
       BufferOf(f[CHOOSE d \in StoredDays : keyFor(act, d) = k])]
    : f \in [StoredDays -> idSets] }

BitOfByte(b, j) == (b \div (2 ^ (7 - j))) % 2

\* replies of the store, when the request does not fail
get(key) == IF key \in DOMAIN store THEN <<store[key]>> ELSE <<>>

strlen(key) == IF key \in DOMAIN store THEN Len(store[key]) ELSE 0

getbit(key, i) ==
  IF key \in DOMAIN store /\ i < 8 * Len(store[key])
  THEN BitOfByte(store[key][(i \div 8) + 1], i % 8) ELSE 0

-----------------------------------------------------------------------------
(* Bit Buffer Normalizer and Cardinality Counter                           *)

Zeros(k) == [i \in 1..k |-> 0]

to64Bits(buffer) ==
  IF Len(buffer) < WordBytes THEN Zeros(WordBytes - Len(buffer)) \o buffer
  ELSE buffer

\* the signed 64-bit value at offset 0, as its two's complement pattern
readBigInt64BE(buffer) ==
  [i \in 1..(8 * WordBytes) |->
     BitOfByte(buffer[((i - 1) \div 8) + 1], (i - 1) % 8)]

BigZero == [i \in 1..(8 * WordBytes) |-> 0]

\* a | b on BigInts within the signed 64-bit range
BigOr(a, b) ==
  [i \in 1..(8 * WordBytes) |-> IF a[i] = 1 \/ b[i] = 1 THEN 1 ELSE 0]

\* the pattern of -v
Negate(v) ==
  LET ones == {i \in DOMAIN v : v[i] = 1}
  IN IF ones = {} THEN v
     ELSE LET low == Max(ones)
          IN [i \in DOMAIN v |->
                IF i > low THEN 0 ELSE IF i = low THEN 1 ELSE 1 - v[i]]

\* BigInt.prototype.toString(2): sign, then the digits of the magnitude
toString2(v) ==
  LET neg == v[1] = 1
      mag == IF neg THEN Negate(v) ELSE v
      ones == {i \in DOMAIN mag : mag[i] = 1}
      digits == IF ones = {} THEN <<"0">>
                ELSE LET first == CHOOSE i \in ones : \A j \in ones : i <= j
                     IN [i \in 1..(Len(mag) - first + 1) |->
                           IF mag[first + i - 1] = 1 THEN "1" ELSE "0"]
  IN IF neg THEN <<"-">> \o digits ELSE digits

cardinality(binaryBigint) ==
  LET binaryString == toString2(binaryBigint)
  IN Cardinality({i \in 1..Len(binaryString) : binaryString[i] = "1"})

\* reduceOr with an absent key counted as BigInt(1)
RECURSIVE reduceOrAbsentOne(_, _, _)
reduceOrAbsentOne(res, i, memo) ==
  IF i > Len(res) THEN memo
  ELSE LET buffer == res[i]
           dailyBigint == IF buffer # <<>>
                          THEN readBigInt64BE(to64Bits(buffer[1]))
                          ELSE [j \in 1..(8 * WordBytes) |->
                                  IF j = 8 * WordBytes THEN 1 ELSE 0]
       IN reduceOrAbsentOne(res, i + 1, BigOr(dailyBigint, memo))

\* _.reduce(results, ..., BigInt(0)) of activeUsers
RECURSIVE reduceOr(_, _, _)
reduceOr(res, i, memo) ==
  IF i > Len(res) THEN memo
  ELSE LET buffer == res[i]
           dailyBigint == IF buffer # <<>>
                          THEN readBigInt64BE(to64Bits(buffer[1]))
                          ELSE BigZero
       IN reduceOr(res, i + 1, BigOr(dailyBigint, memo))

-----------------------------------------------------------------------------
(* Requests to the store                                                   *)

Request(task, kind, bit, len) ==
  [task |-> task, kind |-> kind, bit |-> bit, len |-> len]

\* the errors the store may answer a request with
Errors == {"ECONNRESET", "ETIMEDOUT"}

RemoveAt(s, k) == SubSeq(s, 1, k - 1) \o SubSeq(s, k + 1, Len(s))

\* the store answers its oldest request, or lets the next one overtake it;
\* next is what the answered task requests in the same turn
Answer(k, next) ==
  /\ k \in 1..Len(pending)
  /\ \/ k = 1 /\ overtakes' = overtakes
     \/ k = 2 /\ overtakes < MaxOvertakes /\ overtakes' = overtakes + 1
  /\ pending' = RemoveAt(pending, k) \o next

\* the store answers request k with error e
Fail(k, e) ==
  /\ failures.count < MaxFailures
  /\ failures' = [count |-> failures.count + 1,
                  first |-> IF failures.count = 0 THEN <<e>> ELSE failures.first]
  /\ Answer(k, <<>>)

NoUsers == [from |-> <<>>, to |-> <<>>, ids |-> <<>>]

-----------------------------------------------------------------------------
(* Aggregator: daily, weekly, monthly over activeUsers                     *)

\* activeUsers up to the return of async.map: one get per key, all issued
activeUsers(ks) ==
  /\ pending' = [i \in 1..Len(ks) |-> Request(i, "get", 0, 0)]
  /\ results' = [i \in 1..Len(ks) |-> <<>>]
  /\ mapDone' = FALSE
  /\ UNCHANGED <<store, action, dateArg, type, usersList, dateParts,
                 promise, failures, overtakes, cb>>

daily ==
  /\ op = "none"
  /\ op' = "daily"
  /\ date' = dateArg
  /\ keys' = <<keyFor(action, dateArg)>>
  /\ activeUsers(keys')

weekly ==
  /\ op = "none"
  /\ op' = "weekly"
  /\ LET r == weekKeys(dateArg, action)
     IN date' = r.date /\ keys' = r.keys
  /\ activeUsers(keys')

monthly ==
  /\ op = "none"
  /\ op' = "monthly"
  /\ LET r == monthKeys(dateArg, action)
     IN date' = r.date /\ keys' = r.keys
  /\ activeUsers(keys')

\* async.map's final callback on success (lines 211-224)
mapSuccess(res) == [err |-> <<>>, result |-> <<cardinality(reduceOr(res, 1, BigZero))>>]

\* async.map is done once every get was answered
mapComplete(pend) == pend = <<>>

\* the store answers a get with the buffer (or null)
GetReply(k) ==
  /\ op \in {"daily", "weekly", "monthly"}
  /\ Answer(k, <<>>)
  /\ LET r == pending[k]
     IN /\ results' = [results EXCEPT ![r.task] = get(keys[r.task])]
        /\ IF ~mapDone /\ mapComplete(pending')
           THEN /\ mapDone' = TRUE
                /\ cb' = Append(cb, mapSuccess(results'))
           ELSE UNCHANGED <<mapDone, cb>>
  /\ UNCHANGED <<store, action, dateArg, op, type, date, keys, usersList,
                 dateParts, promise, failures>>

\* mapError without the guard: every error reaches the callback
mapErrorEvery(e) ==
  /\ mapDone' = TRUE
  /\ cb' = Append(cb, [err |-> <<e>>, result |-> <<>>])

\* after the first error async.map calls nothing more
mapError(e) ==
  IF ~mapDone
  THEN /\ mapDone' = TRUE
       /\ cb' = Append(cb, [err |-> <<e>>, result |-> <<>>])
  ELSE UNCHANGED <<mapDone, cb>>

\* the store answers a get with an error
GetFail(k, e) ==
  /\ op \in {"daily", "weekly", "monthly"}
  /\ Fail(k, e)
  /\ mapError(e)
  /\ UNCHANGED <<store, action, dateArg, op, type, date, keys, results,
                 usersList, dateParts, promise>>

-----------------------------------------------------------------------------
(* Range Enumerator: getUsers                                              *)

\* `${dateParts[1]}-${dateParts[2]}-${dateParts[3]}` of key.split('-')
datePartsOf(parts) == <<parts[2], parts[3], parts[4]>>

getUsers(t) ==
  /\ op = "none"
  /\ op' = "getUsers"
  /\ type' = t
  /\ LET r == IF t = "D" THEN [date |-> dateArg,
                               keys |-> <<keyFor(action, dateArg)>>]
              ELSE IF t = "W" THEN weekKeys(dateArg, action)
              ELSE monthKeys(dateArg, action)
     IN date' = r.date /\ keys' = r.keys
  /\ usersList' = [from |-> datePartsOf(keys'[1]),
                   to |-> datePartsOf(keys'[Len(keys')]),
                   ids |-> <<>>]
  /\ dateParts' = keys'[Len(keys')]
  /\ pending' = [i \in 1..Len(keys') |-> Request(i, "strlen", 0, 0)]
  /\ promise' = [state |-> "pending", reason |-> <<>>]
  /\ UNCHANGED <<store, action, dateArg, results, mapDone, failures,
                 overtakes, cb>>

\* allSettled as a race: fulfilled when the first per-key task returns
anySettled(pend) == Len(pend) < Len(keys)

\* Promise.all is fulfilled once every per-key task has returned
allSettled(pend) == pend = <<>>

\* line 193, reached when Promise.all is fulfilled
finish(pend, list) ==
  IF promise.state = "pending" /\ allSettled(pend)
  THEN /\ promise' = [state |-> "fulfilled", reason |-> <<>>]
       /\ cb' = Append(cb, [err |-> <<>>, result |-> <<list>>])
  ELSE UNCHANGED <<promise, cb>>

\* the store answers a task's strlen: the task starts its bit loop or returns
StrlenReply(k) ==
  /\ op = "getUsers"
  /\ k \in 1..Len(pending)
  /\ pending[k].kind = "strlen"
  /\ LET r == pending[k]
         bitmapLen == strlen(keys[r.task]) * 8
     IN /\ Answer(k, IF bitmapLen # 0
                     THEN <<Request(r.task, "getbit", 0, bitmapLen)>>
                     ELSE <<>>)
        /\ finish(pending', usersList)
  /\ UNCHANGED <<store, action, dateArg, op, type, date, keys, results,
                 mapDone, usersList, dateParts, failures>>

\* the entry pushed for bit i while dateParts holds parts
entry(i, parts) == [id |-> i, date |-> ParseFormat(datePartsOf(parts))]

\* the store answers a task's getbit: lines 184-188 and the loop step
GetbitReply(k) ==
  /\ op = "getUsers"
  /\ k \in 1..Len(pending)
  /\ pending[k].kind = "getbit"
  /\ LET r == pending[k]
         item == keys[r.task]
         user == getbit(item, r.bit)
     IN /\ dateParts' = item
        /\ usersList' = IF user = 1
                        THEN [usersList EXCEPT
                                !.ids = Append(@, entry(r.bit, dateParts'))]
                        ELSE usersList
        /\ Answer(k, IF r.bit + 1 < r.len
                     THEN <<Request(r.task, "getbit", r.bit + 1, r.len)>>
                     ELSE <<>>)
        /\ finish(pending', usersList')
  /\ UNCHANGED <<store, action, dateArg, op, type, date, keys, results,
                 mapDone, failures>>

\* the store answers a strlen or getbit with an error: the task throws,
\* Promise.all and with it the promise of getUsers are rejected
UsersFail(k, e) ==
  /\ op = "getUsers"
  /\ Fail(k, e)
  /\ promise' = IF promise.state = "pending"
                THEN [state |-> "rejected", reason |-> <<e>>]
                ELSE promise
  /\ UNCHANGED <<store, action, dateArg, op, type, date, keys, results,
                 mapDone, usersList, dateParts, cb>>

-----------------------------------------------------------------------------
(* Key derivation on its own                                               *)

weekKeysCall ==
  /\ op = "none"
  /\ op' = "weekKeys"
  /\ LET r == weekKeys(dateArg, action)
     IN date' = r.date /\ keys' = r.keys
  /\ UNCHANGED <<store, action, dateArg, type, pending, results, mapDone,
                 usersList, dateParts, promise, failures, overtakes, cb>>

monthKeysCall ==
  /\ op = "none"
  /\ op' = "monthKeys"
  /\ LET r == monthKeys(dateArg, action)
     IN date' = r.date /\ keys' = r.keys
  /\ UNCHANGED <<store, action, dateArg, type, pending, results, mapDone,
                 usersList, dateParts, promise, failures, overtakes, cb>>

-----------------------------------------------------------------------------
(* Specifications                                                          *)

ActionArgs == {<<>>} \cup Actions

\* per stored day: nobody, or the first and the last user of the bitset
SmallIdSets == {{}, {0, 8 * MaxBytes - 1}}

\* per stored day: any of these users, in bitsets of 1, 2 and WideBytes bytes
WideIdSets == SUBSET {0, 7, 8, 8 * WideBytes - 1}

Days == FirstDay..(FirstDay + NumDays - 1)

Idle ==
  /\ op = "none"
  /\ type = ""
  /\ date = dateArg
  /\ keys = <<>>
  /\ pending = <<>>
  /\ results = <<>>
  /\ mapDone = FALSE
  /\ usersList = NoUsers
  /\ dateParts = <<>>
  /\ promise = [state |-> "none", reason |-> <<>>]
  /\ failures = [count |-> 0, first |-> <<>>]
  /\ overtakes = 0
  /\ cb = <<>>

\* the four reports, over short bitsets, with a store that may fail
Init ==
  /\ action \in ActionArgs
  /\ dateArg \in CallDays
  /\ store \in Stores(action, SmallIdSets)
  /\ Idle

Next ==
  \/ daily
  \/ weekly
  \/ monthly
  \/ \E t \in {"D", "W", "M"} : getUsers(t)
  \/ \E k \in {1, 2} : GetReply(k)
  \/ \E k \in {1, 2}, e \in Errors : GetFail(k, e)
  \/ \E k \in {1, 2} : StrlenReply(k)
  \/ \E k \in {1, 2} : GetbitReply(k)
  \/ \E k \in {1, 2}, e \in Errors : UsersFail(k, e)

Spec == Init /\ [][Next]_vars

\* the three counts, over bitsets of up to WideBytes bytes
InitCount ==
  /\ action = <<>>
  /\ dateArg \in CallDays
  /\ store \in Stores(action, WideIdSets)
  /\ Idle

NextCount ==
  \/ daily
  \/ weekly
  \/ monthly
  \/ \E k \in {1, 2} : GetReply(k)

SpecCount == InitCount /\ [][NextCount]_vars

\* key derivation for every day of the range
InitKeys ==
  /\ action \in ActionArgs
  /\ dateArg \in Days
  /\ store = <<>>
  /\ Idle

NextKeys == weekKeysCall \/ monthKeysCall

SpecKeys == InitKeys /\ [][NextKeys]_vars

-----------------------------------------------------------------------------
(* Vocabulary of the properties                                            *)

Counts == {"daily", "weekly", "monthly"}

\* the callback was handed a result and no error
Delivered == cb # <<>> /\ cb[1].err = <<>>

\* the calendar day a key names: the YYYY, MM, DD after the action
KeyDate(key) == SubSeq(key, Len(key) - 2, Len(key))

\* the UTC day number a key names
KeyDay(key) ==
  LET p == KeyDate(key)
  IN DayNumber(CHOOSE y \in 1970..2099 : Pad4(y) = p[1],
               CHOOSE m \in 1..12 : Pad2(m) = p[2],
               CHOOSE d \in 1..31 : Pad2(d) = p[3])

\* bit i of the bitset under key is set (bit 0 is the most significant bit
\* of the first byte)
BitSet(key, i) ==
  /\ key \in DOMAIN store
  /\ i < 8 * Len(store[key])
  /\ (store[key][(i \div 8) + 1] \div (2 ^ (7 - (i % 8)))) % 2 = 1

KeyIndexes == 1..Len(keys)

BitPositions(key) == IF key \in DOMAIN store THEN 0..(8 * Len(store[key]) - 1)
                     ELSE {}

AllBitPositions == UNION {BitPositions(keys[j]) : j \in KeyIndexes}

\* the user ids active on at least one day of the range
ActiveIds == {i \in AllBitPositions : \E j \in KeyIndexes : BitSet(keys[j], i)}

\* the (key, bit) pairs that are set in the range
SetBits == {<<j, i>> \in KeyIndexes \X AllBitPositions : BitSet(keys[j], i)}

\* how often the entry {id: i, date: d} occurs in ids
Occurrences(ids, i, d) ==
  Cardinality({n \in 1..Len(ids) : ids[n].id = i /\ ids[n].date = d})

-----------------------------------------------------------------------------
(* C1: the count of weekly and of monthly is the number of distinct user   *)
(* ids whose bit is set in at least one day's bitset of the range, the     *)
(* bitsets being at most 8 bytes long and of any lengths.  (Stated for the *)
(* ranges in which no bitset fills all 8 bytes with user 0 set, the case   *)
(* of C4.)                                                                 *)
C1_CountIsDistinctIds ==
  (/\ op \in {"weekly", "monthly"}
   /\ Delivered
   /\ \A j \in KeyIndexes : /\ strlen(keys[j]) <= 8
                            /\ ~(strlen(keys[j]) = 8 /\ BitSet(keys[j], 0)))
  => cb[1].result = <<Cardinality(ActiveIds)>>

(* C4: for a bitset of 1 to 8 bytes the count of daily is the number of    *)
(* 1-bits of the buffer, also when the buffer is 8 bytes long with its     *)
(* most significant bit set.                                               *)
C4_DailyCountIsPopulation ==
  (/\ op = "daily"
   /\ Delivered
   /\ strlen(keys[1]) \in 1..8)
  => cb[1].result = <<Cardinality({i \in BitPositions(keys[1]) :
                                      BitSet(keys[1], i)})>>

(* C2: in the delivered users list an entry of an earlier day never comes  *)
(* after an entry of a later day, and the ids of one day are strictly      *)
(* ascending.  (Stated for the lists whose dates are days of the range.)   *)
C2_IdsInKeyOrder ==
  (/\ op = "getUsers"
   /\ Delivered
   /\ \A n \in 1..Len(usersList.ids) :
        \E j \in KeyIndexes : usersList.ids[n].date = KeyDate(keys[j]))
  => LET ids == cb[1].result[1].ids
         DayOf(e) == CHOOSE j \in KeyIndexes : e.date = KeyDate(keys[j])
     IN \A a, b \in 1..Len(ids) :
          a < b => \/ DayOf(ids[a]) < DayOf(ids[b])
                   \/ DayOf(ids[a]) = DayOf(ids[b]) /\ ids[a].id < ids[b].id

(* C3: once a store request of getUsers has failed and the call has come   *)
(* to rest, the callback has been invoked once, with the error and with no *)
(* users list.                                                             *)
C3_ErrorReachesCallback ==
  (op = "getUsers" /\ failures.count > 0 /\ pending = <<>>)
  => /\ Len(cb) = 1
     /\ cb[1].err = failures.first
     /\ cb[1].result = <<>>

(* C5: without failures the delivered ids are, as a multiset, exactly the  *)
(* pairs {id: i, date: d} with bit i set in the bitset of day d of the     *)
(* range: each once, tagged with the day of its key, and nothing else.     *)
C5_IdsAreTheSetBits ==
  (op = "getUsers" /\ Delivered)
  => LET ids == cb[1].result[1].ids
     IN /\ Len(ids) = Cardinality(SetBits)
        /\ \A j \in KeyIndexes : \A i \in AllBitPositions :
             Occurrences(ids, i, KeyDate(keys[j])) =
               IF BitSet(keys[j], i) THEN 1 ELSE 0

(* C9: from and to of the delivered users list are the calendar days of    *)
(* the first and the last key, and the date of every entry is the day of a *)
(* key of the range that has the entry's bit set, for every action.        *)
C9_FromToAreKeyDays ==
  (op = "getUsers" /\ Delivered)
  => LET list == cb[1].result[1]
     IN /\ list.from = KeyDate(keys[1])
        /\ list.to = KeyDate(keys[Len(keys)])
        /\ \A n \in 1..Len(list.ids) :
             \E j \in KeyIndexes : /\ list.ids[n].date = KeyDate(keys[j])
                                   /\ BitSet(keys[j], list.ids[n].id)

(* C6: when every queried key is absent the counts are 0 and ids is empty, *)
(* with from and to set from the first and last key; an absent key adds no *)
(* bit to the count and no entry to ids, and a call whose store requests   *)
(* all succeed delivers a result and no error.                             *)
C6_AbsentKeysContributeNothing ==
  LET Present(k) == k \in DOMAIN store
      present == SelectSeq(keys, Present)
  IN /\ (op \in Counts /\ Delivered)
        => /\ cb[1].result =
                <<cardinality(reduceOr([j \in 1..Len(present) |->
                                          <<store[present[j]]>>], 1, BigZero))>>
           /\ present = <<>> => cb[1].result = <<0>>
     /\ (op = "getUsers" /\ Delivered)
        => LET list == cb[1].result[1]
           IN /\ Len(list.ids) = Cardinality(SetBits)
              /\ present = <<>> => list.ids = <<>>
              /\ Len(list.from) = 3 /\ Len(list.to) = 3
              /\ Len(keys[1]) = 4 => /\ list.from = KeyDate(keys[1])
                                     /\ list.to = KeyDate(keys[Len(keys)])
     /\ (op # "none" /\ failures.count = 0 /\ pending = <<>>)
        => Len(cb) = 1 /\ cb[1].err = <<>>

\* getUsers over a month has delivered from a store without any of its keys
C6_Witness ==
  /\ op = "getUsers" /\ type = "M"
  /\ Delivered
  /\ DOMAIN store = {}
  /\ cb[1].result[1].ids = <<>>

(* C7: once a get of daily, weekly or monthly has failed, the callback has *)
(* been invoked exactly once, with the first error and with no count,      *)
(* however the remaining gets complete or fail.                            *)
C7_FirstErrorAbortsAggregation ==
  (op \in Counts /\ failures.count > 0)
  => /\ Len(cb) = 1
     /\ cb[1].err = failures.first
     /\ cb[1].result = <<>>

\* weekly: two gets failed, the store answered out of order, a stored bitset
\* was fetched, and every get has been answered
C7_Witness ==
  /\ op = "weekly"
  /\ failures.count >= 2
  /\ overtakes > 0
  /\ pending = <<>>
  /\ \E j \in KeyIndexes : results[j] # <<>>
  /\ Len(cb) = 1

(* C8: weekKeys yields 7 keys and monthKeys daysInMonth keys, of the given *)
(* action, consecutive keys one calendar day apart, starting on the first  *)
(* day of the week (month) that contains the date and covering it.         *)
C8_KeySequences ==
  LET first == KeyDay(keys[1])
      arg == Civil(dateArg)
      prefix == IF action = <<>> THEN <<"active">> ELSE action
      Sequential ==
        /\ \A j \in KeyIndexes :
             /\ keys[j] = prefix \o Format(KeyDay(keys[j]))
             /\ ParseFormat(KeyDate(keys[j])) = KeyDate(keys[j])
        /\ \A j \in 1..(Len(keys) - 1) : KeyDay(keys[j + 1]) = KeyDay(keys[j]) + 1
  IN /\ op = "weekKeys"
        => /\ Len(keys) = 7
           /\ Sequential
           /\ (first + 4) % 7 = 0
           /\ first <= dateArg /\ dateArg <= first + 6
     /\ op = "monthKeys"
        => /\ Len(keys) = DaysIn(arg.y, arg.m)
           /\ Sequential
           /\ KeyDate(keys[1]) = <<Pad4(arg.y), Pad2(arg.m), "01">>
           /\ \A j \in KeyIndexes : /\ KeyDate(keys[j])[1] = Pad4(arg.y)
                                    /\ KeyDate(keys[j])[2] = Pad2(arg.m)

\* the week of a day in early January 2024, which starts in 2023
C8_Witness ==
  /\ op = "weekKeys"
  /\ KeyDate(keys[1]) = <<"2023", "12", "31">>
  /\ KeyDate(keys[7]) = <<"2024", "01", "06">>
  /\ dateArg > KeyDay(keys[1])

(* C10: a count or users list is delivered only when no store request of   *)
(* the call is outstanding, and after the delivery no request completes    *)
(* and the delivered result does not change.                               *)
C10_Barrier ==
  /\ [](Delivered => /\ pending = <<>>
                     /\ op = "getUsers" => cb[1].result[1] = usersList)
  /\ [][Delivered => /\ cb' = cb
                     /\ pending' = pending
                     /\ usersList' = usersList
                     /\ results' = results]_vars

\* getUsers over a week has delivered entries of both stored days
C10_Witness ==
  /\ op = "getUsers" /\ type = "W"
  /\ Delivered
  /\ \E a, b \in 1..Len(cb[1].result[1].ids) :
       cb[1].result[1].ids[a].date # cb[1].result[1].ids[b].date

====
